---- MODULE Spec2Model ----
(***************************************************************************)
(* Model of the ingestion engine of src/ringest.py (class Ringest and      *)
(* flatten_comments) as started by src/component.py.                       *)
(*                                                                         *)
(* Time is counted in units of ten minutes: the default reservation of     *)
(* do_ringest (reservation_hours=0, reservation_minutes=10) is one unit.   *)
(* The sleeps of the code (sleep(1), sleep(10), request_sleep) are shorter *)
(* than one unit; the clock may advance between any two steps.             *)
(***************************************************************************)
EXTENDS Integers, Sequences, FiniteSets, TLC

\* ---------------------------------------------------------------- bounds
MaxTime == 3
MaxFaults == 2
MaxRequests == 24
MaxResults == 4

\* ------------------------------------------------------ program constants
max_attempts == 2
DefaultReservation == 1
default_rate_limit_remaining == 60
default_rate_limit_reset == 5
SearchRetries == 20
CommentsRetries == 2
MoreRetries == 20
RetrySleep == 10
BatchSize == 10
part_size_seconds == 10
utc_offset == 28800
CliReservation == 12      \* --reservation-hours default=2, --reservation-minutes default=0

Runs == {1, 2}            \* two processes started against the same auth_library
Unames == {"u1", "u2", "u3"}
NoRun == 0
None == "None"
bad_ids == {None, "", "_", "__"}

VARIABLES
  now,          \* wall clock (datetime.now / CURRENT_TIMESTAMP)
  available,    \* auth_library.available, per uname
  holder,       \* history: the run whose claim of the uname is not yet released by it
  upstream,     \* what the API serves: search pages, the comments listing, follow-up things
  faults,       \* how many failing answers (non-200, exception) the network still gives
  pc,           \* position of each run
  args,         \* parse_args() of each run
  count,        \* count of lock_creds
  unames,       \* self.unames
  lk_unames,    \* _unames of lock_loop
  attempts,     \* attempts of lock_loop
  reservation,  \* reservation_hours/reservation_minutes as received by lock_creds
  self,         \* the other fields of the Ringest object
  req,          \* the frame of request(): url, retries_left, and its history
  nib,          \* the locals of do_search_nibble, with the sink f
  exp,          \* the locals of do_comments, populate_thing and do_morechildren
  part          \* the arguments and the result of a partition_window call

leaseVars == <<now, available, holder>>
lockVars == <<count, unames, lk_unames, attempts, reservation>>
envVars == <<upstream, faults, args, part>>
workVars == <<self, req, nib, exp>>
vars == <<now, available, holder, upstream, faults, pc, args, count, unames, lk_unames,
          attempts, reservation, self, req, nib, exp, part>>

\* ----------------------------------------------------------------- helpers
Range(s) == {s[i] : i \in 1..Len(s)}

Perms(S) == {s \in [1..Cardinality(S) -> S] : Range(s) = S}

Take(s, n) == SubSeq(s, 1, IF n < Len(s) THEN n ELSE Len(s))

Drop(s, n) == SubSeq(s, n + 1, Len(s))

\* UPDATE auth_library SET available = CURRENT_TIMESTAMP WHERE uname in (...)
ReleasedRows(names) == [u \in Unames |-> IF u \in Range(names) THEN now ELSE available[u]]

\* the release as seen by the history variable: only the holder's own release ends its lease
ReleasedHolder(r, names) == [u \in Unames |-> IF u \in Range(names) /\ holder[u] = r THEN NoRun ELSE holder[u]]

\* WHERE platform = 'reddit' AND available < now
Leasable == {u \in Unames : available[u] < now}


\* ---------------------------------------------------------- ThingNodes
\* A JSON "thing" is a record; kind is its "kind" key.
\*   Listing : data.children is a list of things
\*   t3      : the link (post); data.id
\*   t1      : a comment; data.id, data.replies (data_replies) and, when the
\*             key is there, a "replies" key beside "kind" and "data"
\*   more    : data.children is a list of ids, Ids(..); after populate_thing
\*             it is the list of follow-up responses, Responses(..)
Absent == [kind |-> "absent"]        \* the key is missing
EmptyDict == [kind |-> "dict"]       \* {}
EmptyStr == [kind |-> "str"]         \* "" (what the API sends for no replies)

Listing(ch) == [kind |-> "Listing", children |-> ch]

Link(id) == [kind |-> "t3", id |-> id]

Comment(id, dr, tr) == [kind |-> "t1", id |-> id, data_replies |-> dr, replies |-> tr]

Ids(s) == [ids |-> s]

Responses(s) == [responses |-> s]

More(ch) == [kind |-> "more", children |-> ch]

\* the JSON body of /api/morechildren: {"json": {"data": {"things": [...]}}}
Response(things) == [kind |-> "response", things |-> things]

\* a JSON body that is not an object
NotDict == [kind |-> "list"]

RECURSIVE Concat(_)
Concat(ss) == IF ss = <<>> THEN <<>> ELSE Head(ss) \o Concat(Tail(ss))

\* the ids of a 'more' taken as they are
SelectEveryId(s) == s

\* [i for i in ... if i not in Ringest.bad_ids]
SelectIds(s) == SelectSeq(s, LAMBDA i : i \notin bad_ids)

\* ------------------------------------------------------ flatten_comments
\* clone = dict(child); clone["data"] = data without "replies"
Clone(child) == IF child.kind = "t1" THEN [child EXCEPT !.data_replies = Absent] ELSE child

\* child["data"].get("replies") is truthy
HasReplies(child) == child.kind = "t1" /\ child.data_replies.kind = "Listing"

RECURSIVE traverse(_)
traverse(comment_listing) ==
  Concat([i \in 1..Len(comment_listing.children) |->
            LET child == comment_listing.children[i]
            IN  <<Clone(child)>> \o
                (IF HasReplies(child) THEN traverse(child.data_replies) ELSE <<>>)])

\* the child when clone is the child itself: clone["data"] = ... replaces its data
AfterCloneAliased(child) == Clone(child)

\* the child of the input after clone = dict(child); clone["data"] = {...}:
\* dict(child) is a new dict, and the assignment replaces a key of that new
\* dict, so the child keeps its data
AfterClone(child) == child

\* the input Listing after traverse has walked it
RECURSIVE traversed(_)
traversed(comment_listing) ==
  [comment_listing EXCEPT !.children =
     [i \in 1..Len(comment_listing.children) |->
        LET child == AfterClone(comment_listing.children[i])
        IN  IF HasReplies(comment_listing.children[i]) /\ HasReplies(child)
              THEN [child EXCEPT !.data_replies = traversed(child.data_replies)]
              ELSE child]]

\* link_doc["comments"] after flatten_comments: comments[0] is only read
flattened_input(comments) ==
  [i \in 1..Len(comments) |-> IF i = 1 THEN comments[i] ELSE traversed(comments[i])]

\* the assertion on comments[0]
FlattenAssert(comments) ==
  /\ Len(comments) > 0
  /\ comments[1].kind = "Listing"
  /\ Len(comments[1].children) = 1
  /\ comments[1].children[1].kind = "t3"

\* the LinkRecord: dict(link_doc, flattened_comments=...)
flatten_comments(link_doc) ==
  [link |-> link_doc.link, comments |-> link_doc.comments,
   flattened_comments |-> Concat([i \in 1..(Len(link_doc.comments) - 1) |->
                                    traverse(link_doc.comments[i + 1])])]

\* -------------------------------------------------------- populate_thing
\* populate_thing without its follow-up requests: a Listing populates its
\* children, a t1 sets its "replies" key to populate_thing(d.get('replies', {})),
\* everything else is returned as it is
RECURSIVE PopulateShape(_)
PopulateShape(d) ==
  IF d.kind = "Listing"
    THEN [d EXCEPT !.children = [i \in 1..Len(d.children) |-> PopulateShape(d.children[i])]]
  ELSE IF d.kind = "t1"
    THEN [d EXCEPT !.replies = PopulateShape(IF d.replies = Absent THEN EmptyDict ELSE d.replies)]
  ELSE d

\* the 'more' things populate_thing reaches, in the order it reaches them; a
\* path step is an index into data.children, or 0 for the "replies" key of a t1
RECURSIVE MorePaths(_)
MorePaths(d) ==
  IF d.kind = "Listing"
    THEN Concat([i \in 1..Len(d.children) |->
                  LET sub == MorePaths(d.children[i])
                  IN  [j \in 1..Len(sub) |-> <<i>> \o sub[j]]])
  ELSE IF d.kind = "t1"
    THEN LET sub == MorePaths(IF d.replies = Absent THEN EmptyDict ELSE d.replies)
         IN  [j \in 1..Len(sub) |-> <<0>> \o sub[j]]
  ELSE IF d.kind = "more" THEN << <<>> >>
  ELSE <<>>

RECURSIVE NodeAt(_, _)
NodeAt(d, path) ==
  IF path = <<>> THEN d
  ELSE IF Head(path) = 0 THEN NodeAt(d.replies, Tail(path))
  ELSE NodeAt(d.children[Head(path)], Tail(path))

\* d['data']['children'] = results, at the 'more' thing at path
RECURSIVE SetChildren(_, _, _)
SetChildren(d, path, results) ==
  IF path = <<>> THEN [d EXCEPT !.children = Responses(results)]
  ELSE IF Head(path) = 0 THEN [d EXCEPT !.replies = SetChildren(d.replies, Tail(path), results)]
  ELSE [d EXCEPT !.children[Head(path)] = SetChildren(d.children[Head(path)], Tail(path), results)]

\* ----------------------------------------------- get_child_ids_from_thing
\* d['kind'] of a dict without the key raises KeyError
ChildIdsRaises(d) == d.kind = "dict"

RECURSIVE ThingRaises(_)
ThingRaises(d) ==
  IF d.kind = "Listing" THEN \E i \in 1..Len(d.children) : ThingRaises(d.children[i])
  ELSE IF d.kind = "t1" THEN ThingRaises(IF d.data_replies = Absent THEN EmptyDict ELSE d.data_replies)
  ELSE ChildIdsRaises(d)

RECURSIVE get_child_ids_from_thing(_)
get_child_ids_from_thing(d) ==
  IF d.kind = "Listing"
    THEN Concat([i \in 1..Len(d.children) |-> get_child_ids_from_thing(d.children[i])])
  ELSE IF d.kind = "t1" THEN get_child_ids_from_thing(d.data_replies)
  ELSE IF d.kind = "more" THEN SelectIds(d.children.ids)
  ELSE <<>>

\* ------------------------------------------------------- release_creds
\* release_creds(unames): one UPDATE and commit; nothing when the list is empty
release_creds(r, names) ==
  /\ available' = ReleasedRows(names)
  /\ holder' = ReleasedHolder(r, names)

\* ---------------------------------------------------------- lock_creds
\* Component.__call__ -> do_ringest -> lock_creds: the reservation arguments
\* are not passed by Component.__call__, so do_ringest's defaults apply
Call(r) ==
  /\ pc[r] = "call"
  /\ count' = [count EXCEPT ![r] = args[r].token_count]
  /\ reservation' = [reservation EXCEPT ![r] = DefaultReservation]
  /\ lk_unames' = [lk_unames EXCEPT ![r] = <<>>]
  /\ attempts' = [attempts EXCEPT ![r] = 0]
  /\ pc' = [pc EXCEPT ![r] = "lock_loop"]
  /\ UNCHANGED <<leaseVars, envVars, workVars, unames>>

\* while len(_unames) < count and attempts < max_attempts
LockCond(r) == Len(lk_unames[r]) < count[r] /\ attempts[r] < max_attempts

\* loop head: attempts += 1; sleep(1); release what the previous attempt claimed
LockLoop(r) ==
  /\ pc[r] = "lock_loop"
  /\ LockCond(r)
  /\ attempts' = [attempts EXCEPT ![r] = @ + 1]
  /\ release_creds(r, lk_unames[r])
  /\ pc' = [pc EXCEPT ![r] = "lock_claim"]
  /\ UNCHANGED <<now, envVars, workVars, count, unames, lk_unames, reservation>>

\* the claim UPDATE: every row with available < now, no LIMIT; RETURNING order is the store's
LockClaim(r) ==
  /\ pc[r] = "lock_claim"
  /\ \E rows \in Perms(Leasable) :
       /\ lk_unames' = [lk_unames EXCEPT ![r] = rows]
       /\ pc' = [pc EXCEPT ![r] = IF Len(rows) > count[r] THEN "lock_surplus" ELSE "lock_loop"]
  /\ available' = [u \in Unames |-> IF u \in Leasable THEN now + reservation[r] ELSE available[u]]
  /\ holder' = [u \in Unames |-> IF u \in Leasable THEN r ELSE holder[u]]
  /\ UNCHANGED <<now, envVars, workVars, count, unames, attempts, reservation>>

\* the surplus dropped from the list without the release
LockSurplusKept(r) ==
  /\ pc[r] = "lock_surplus"
  /\ lk_unames' = [lk_unames EXCEPT ![r] = Take(@, count[r])]
  /\ pc' = [pc EXCEPT ![r] = "lock_loop"]
  /\ UNCHANGED <<leaseVars, envVars, workVars, count, unames, attempts, reservation>>

\* if len(_unames) > count: release _unames[count:], keep _unames[:count]
LockSurplus(r) ==
  /\ pc[r] = "lock_surplus"
  /\ release_creds(r, Drop(lk_unames[r], count[r]))
  /\ lk_unames' = [lk_unames EXCEPT ![r] = Take(@, count[r])]
  /\ pc' = [pc EXCEPT ![r] = "lock_loop"]
  /\ UNCHANGED <<now, envVars, workVars, count, unames, attempts, reservation>>

\* after the loop: go on with the identities the last attempt claimed
LockRaiseIgnored(r) ==
  /\ pc[r] = "lock_loop"
  /\ ~LockCond(r)
  /\ Len(lk_unames[r]) < count[r]
  /\ unames' = [unames EXCEPT ![r] = lk_unames[r]]
  /\ pc' = [pc EXCEPT ![r] = "nibble"]
  /\ UNCHANGED <<leaseVars, envVars, workVars, count, lk_unames, attempts, reservation>>

\* after the loop: raise ConnectionError, which nothing in do_ringest catches
LockRaise(r) ==
  /\ pc[r] = "lock_loop"
  /\ ~LockCond(r)
  /\ Len(lk_unames[r]) < count[r]
  /\ pc' = [pc EXCEPT ![r] = "lock_failed"]
  /\ UNCHANGED <<leaseVars, envVars, workVars, lockVars>>

\* after the loop: return _unames; do_ringest stores them in self.unames
LockReturn(r) ==
  /\ pc[r] = "lock_loop"
  /\ ~LockCond(r)
  /\ Len(lk_unames[r]) >= count[r]
  /\ unames' = [unames EXCEPT ![r] = lk_unames[r]]
  /\ pc' = [pc EXCEPT ![r] = "nibble"]
  /\ UNCHANGED <<leaseVars, envVars, workVars, count, lk_unames, attempts, reservation>>

\* ------------------------------------------------------ partition_window
\* range(start_uts, end_uts, part_size_seconds)
RangeLen(lo, hi, step) == IF hi > lo THEN (hi - lo + step - 1) \div step ELSE 0

Min(a, b) == IF a < b THEN a ELSE b

\* [(i, min(i + part_size_seconds - 1, end_uts)) for i in range(...)]
partition_window(start_time, end_time, size, offset) ==
  LET start_uts == start_time + offset
      end_uts == end_time + offset
  IN  [k \in 1..RangeLen(start_uts, end_uts, size) |->
         LET i == start_uts + (k - 1) * size
         IN  <<i, Min(i + size - 1, end_uts)>>]

\* ---------------------------------------------------------------- request
\* the value of a rate-limit field: the int a default gives, or the string of a header
IntVal(n) == [t |-> "int", v |-> n]

StrVal(n) == [t |-> "str", v |-> n]

NoHeaders == [present |-> FALSE, used |-> 0, remaining |-> 0, reset |-> 0]

Headers(u, rem, rst) == [present |-> TRUE, used |-> u, remaining |-> rem, reset |-> rst]

\* response.headers.get(name, default)
HeaderGet(h, value, default) == IF h.present THEN StrVal(value) ELSE IntVal(default)

\* Ringest.__init__
NewRingest ==
  [tokens |-> <<>>, request_sleep |-> 1,
   rate_limit_used |-> IntVal(0),
   rate_limit_remaining |-> IntVal(default_rate_limit_remaining),
   rate_limit_reset |-> IntVal(0),
   request_count |-> 0]

NoUrl == [endpoint |-> ""]

\* no token was used yet
NoToken == 0 - 1

\* the frame of request(), with its history: GETs sent, seconds slept between
\* them (slept) and before them for the rate limit (waits), the status and the
\* headers of the last response, the index of the token of the last GET and
\* whether a token answer came without access_token
NoReq == [site |-> "", url |-> NoUrl, retries_left |-> 0, budget |-> 0,
          sends |-> 0, slept |-> 0, waits |-> 0, status |-> 0,
          headers |-> NoHeaders, token |-> NoToken, token_failed |-> FALSE]

\* a call self.request(url=url, retries_left=n) from site
request(r, site, url, n) ==
  /\ req' = [req EXCEPT ![r] = [NoReq EXCEPT !.site = site, !.url = url,
                                              !.retries_left = n, !.budget = n]]
  /\ pc' = [pc EXCEPT ![r] = "request"]

\* if self.rate_limit_remaining == 0: sleep(self.rate_limit_reset)
RateLimited(r) == self[r].rate_limit_remaining = IntVal(0)

\* fetch_tokens, when every token request answers with an access_token
fetch_tokens(r) == IF Len(self[r].tokens) < 1 THEN unames[r] ELSE self[r].tokens

\* self.request_count += 1; from MaxRequests on the number stands for "that many or more"
Counted(n) == IF n < MaxRequests THEN n + 1 ELSE n

\* the part of request() before requests.get returns: the rate-limit sleep,
\* the tokens, the inter-request delay and the request counter
Sent(r) ==
  [self[r] EXCEPT !.tokens = fetch_tokens(r), !.request_count = Counted(@)]

\* the rate-limit fields, with the values of __init__ as the defaults
ReceivedInitDefaults(obj, h) ==
  [obj EXCEPT !.rate_limit_used = HeaderGet(h, h.used, 0),
              !.rate_limit_remaining = HeaderGet(h, h.remaining, default_rate_limit_remaining),
              !.rate_limit_reset = HeaderGet(h, h.reset, 0)]

\* the rate-limit fields after a response with headers h
Received(obj, h) ==
  [obj EXCEPT !.rate_limit_used = HeaderGet(h, h.used, 0),
              !.rate_limit_remaining = HeaderGet(h, h.remaining, default_rate_limit_remaining),
              !.rate_limit_reset = HeaderGet(h, h.reset, default_rate_limit_reset)]

\* sleep(self.rate_limit_reset), when the test above holds
RateWait(r) == IF RateLimited(r) THEN self[r].rate_limit_reset.v ELSE 0

\* the token index read after the counter was incremented
TokenIndexAfterCount(r) == (self[r].request_count + 1) % Len(fetch_tokens(r))

\* tokens[self.request_count % len(tokens)], read before the counter is incremented
TokenIndex(r) == self[r].request_count % Len(fetch_tokens(r))

\* one GET answered with status and headers h
SentFrame(r, status, h) ==
  [req[r] EXCEPT !.sends = @ + 1, !.status = status, !.headers = h,
                 !.waits = @ + RateWait(r), !.token = TokenIndex(r)]

HeaderChoices == {NoHeaders, Headers(60, 0, 7)}

\* an exception raised inside request(): do_search_nibble catches it around the
\* search request only (release_creds, sys.exit(1)); elsewhere it leaves do_ringest
Raised(r) ==
  IF req[r].site = "search"
    THEN /\ release_creds(r, unames[r])
         /\ pc' = [pc EXCEPT ![r] = "exit"]
    ELSE /\ pc' = [pc EXCEPT ![r] = "raised"]
         /\ UNCHANGED <<available, holder>>

\* if retries_left == 0: release_creds(); sys.exit(1)
ReqExhausted(r) ==
  /\ pc[r] = "request"
  /\ req[r].retries_left = 0
  /\ release_creds(r, unames[r])
  /\ pc' = [pc EXCEPT ![r] = "exit"]
  /\ UNCHANGED <<now, envVars, lockVars, workVars>>

\* fetch_tokens raises: a token answer without access_token (KeyError)
ReqTokenError(r) ==
  /\ pc[r] = "request"
  /\ req[r].retries_left > 0
  /\ Len(self[r].tokens) < 1
  /\ faults > 0
  /\ faults' = faults - 1
  /\ req' = [req EXCEPT ![r].waits = @ + RateWait(r), ![r].token_failed = TRUE]
  /\ Raised(r)
  /\ UNCHANGED <<now, upstream, args, part, lockVars, self, nib, exp>>

\* requests.get raises
ReqTransport(r) ==
  /\ pc[r] = "request"
  /\ req[r].retries_left > 0
  /\ faults > 0
  /\ faults' = faults - 1
  /\ self' = [self EXCEPT ![r] = Sent(r)]
  /\ req' = [req EXCEPT ![r] = SentFrame(r, 0, req[r].headers)]
  /\ Raised(r)
  /\ UNCHANGED <<now, upstream, args, part, lockVars, nib, exp>>

\* status 414 handled like every other failing status: sleep and retry
Req414Retried(r) ==
  /\ pc[r] = "request"
  /\ req[r].retries_left > 0
  /\ faults > 0
  /\ faults' = faults - 1
  /\ \E h \in HeaderChoices :
       /\ self' = [self EXCEPT ![r] = Received(Sent(r), h)]
       /\ req' = [req EXCEPT ![r] = [SentFrame(r, 414, h) EXCEPT !.slept = @ + RetrySleep,
                                                                !.retries_left = @ - 1]]
  /\ UNCHANGED <<leaseVars, pc, upstream, args, part, lockVars, nib, exp>>

\* status 414: release_creds(); sys.exit(1)
Req414(r) ==
  /\ pc[r] = "request"
  /\ req[r].retries_left > 0
  /\ faults > 0
  /\ faults' = faults - 1
  /\ \E h \in HeaderChoices :
       /\ self' = [self EXCEPT ![r] = Received(Sent(r), h)]
       /\ req' = [req EXCEPT ![r] = SentFrame(r, 414, h)]
  /\ release_creds(r, unames[r])
  /\ pc' = [pc EXCEPT ![r] = "exit"]
  /\ UNCHANGED <<now, upstream, args, part, lockVars, nib, exp>>

\* a frame that sleeps and sends again with the budget it had
RetriedSameBudget(frame) == [frame EXCEPT !.slept = @ + RetrySleep]

\* the frame after a failing response: sleep(10); self.request(url, retries_left - 1)
Retried(frame) == [frame EXCEPT !.slept = @ + RetrySleep, !.retries_left = @ - 1]

\* another status than 200 and 414, with retries_left > 0
ReqRetry(r) ==
  /\ pc[r] = "request"
  /\ req[r].retries_left > 0
  /\ faults > 0
  /\ faults' = faults - 1
  /\ \E h \in HeaderChoices :
       /\ self' = [self EXCEPT ![r] = Received(Sent(r), h)]
       /\ req' = [req EXCEPT ![r] = Retried(SentFrame(r, 500, h))]
  /\ UNCHANGED <<leaseVars, pc, upstream, args, part, lockVars, nib, exp>>

\* status 200: return response, up through the retrying calls, to the caller
Req200(r) ==
  /\ pc[r] = "request"
  /\ req[r].retries_left > 0
  /\ \E h \in HeaderChoices :
       /\ self' = [self EXCEPT ![r] = Received(Sent(r), h)]
       /\ req' = [req EXCEPT ![r] = SentFrame(r, 200, h)]
  /\ pc' = [pc EXCEPT ![r] = req[r].site]
  /\ UNCHANGED <<leaseVars, envVars, lockVars, nib, exp>>

\* ------------------------------------------------------------- upstream
NoCursor == 0        \* after is None

\* the search page a request for window number w with cursor after is answered with
SearchPage(w, after) ==
  LET pages == upstream.search[w]
      k == IF after = NoCursor THEN 1 ELSE after
  IN  [children |-> pages[k], after |-> IF k < Len(pages) THEN k + 1 ELSE NoCursor]

\* the body of /comments/<link_id>.json
CommentsResponse(link_id) ==
  IF upstream.comments.head = "missing" THEN <<>>
  ELSE <<Listing(<<IF upstream.comments.head = "t3" THEN Link(link_id)
                   ELSE Comment(link_id, EmptyStr, Absent)>>)>> \o upstream.comments.rest

NextId(id) == IF id = "a" THEN "b" ELSE IF id = "b" THEN "c" ELSE "a"

\* the things /api/morechildren gives for one requested id
ThingsFor(id) ==
  LET kind == IF id \in DOMAIN upstream.reply THEN upstream.reply[id] ELSE "none"
  IN  IF kind = "comment" THEN <<Comment(id, EmptyStr, Absent)>>
      ELSE IF kind = "again" THEN <<Comment(id, EmptyStr, Absent), More(Ids(<<id>>))>>
      ELSE IF kind = "nested"
        THEN <<Comment(id, Listing(<<More(Ids(<<NextId(id), "_">>))>>), Absent)>>
      ELSE IF kind = "keyerror" THEN <<Comment(id, Absent, Absent)>>
      ELSE <<>>

\* the body of /api/morechildren for a batch of ids
MoreResponse(batch) ==
  IF \E i \in 1..Len(batch) : batch[i] \in DOMAIN upstream.reply /\ upstream.reply[batch[i]] = "notdict"
    THEN NotDict
    ELSE Response(Concat([i \in 1..Len(batch) |-> ThingsFor(batch[i])]))

\* ------------------------------------------------------- do_search_nibble
NoNib == [windows |-> <<>>, w |-> 0, started |-> FALSE, after |-> NoCursor,
          items |-> <<>>, link |-> "", f |-> <<>>, closed |-> FALSE, uploaded |-> "no"]

NoExp == [link_name |-> "", tree |-> <<>>, pending |-> <<>>,
          more_child_ids |-> <<>>, results |-> <<>>, followups |-> 0]

\* do_ringest after lock_creds, and do_search_nibble up to its loop over the windows
Nibble(r) ==
  /\ pc[r] = "nibble"
  /\ self' = [self EXCEPT ![r].request_sleep = args[r].request_sleep]
  /\ nib' = [nib EXCEPT ![r] = [NoNib EXCEPT !.windows =
                 partition_window(args[r].start_time, args[r].end_time, part_size_seconds, utc_offset)]]
  /\ pc' = [pc EXCEPT ![r] = "window_loop"]
  /\ UNCHANGED <<leaseVars, envVars, lockVars, req, exp>>

\* for start_uts, end_uts in partition_window(...): started = False; after = None
WindowNext(r) ==
  /\ pc[r] = "window_loop"
  /\ nib[r].w < Len(nib[r].windows)
  /\ nib' = [nib EXCEPT ![r].w = @ + 1, ![r].started = FALSE, ![r].after = NoCursor]
  /\ pc' = [pc EXCEPT ![r] = "page_loop"]
  /\ UNCHANGED <<leaseVars, envVars, lockVars, self, req, exp>>

\* the loop over the windows is over: the sink is closed
WindowsDone(r) ==
  /\ pc[r] = "window_loop"
  /\ nib[r].w >= Len(nib[r].windows)
  /\ nib' = [nib EXCEPT ![r].closed = TRUE]
  /\ pc' = [pc EXCEPT ![r] = "upload"]
  /\ UNCHANGED <<leaseVars, envVars, lockVars, self, req, exp>>

\* a loop that asks for the first page of a window only
PageCondFirstPage(r) == ~nib[r].started

\* while (not started) or after is not None
PageCond(r) == ~nib[r].started \/ nib[r].after # NoCursor

SearchUrl(r) == [endpoint |-> "search", window |-> nib[r].windows[nib[r].w], after |-> nib[r].after]

PageRequest(r) ==
  /\ pc[r] = "page_loop"
  /\ PageCond(r)
  /\ nib' = [nib EXCEPT ![r].started = TRUE]
  /\ request(r, "search", SearchUrl(r), SearchRetries)
  /\ UNCHANGED <<leaseVars, envVars, lockVars, self, exp>>

PageDone(r) ==
  /\ pc[r] = "page_loop"
  /\ ~PageCond(r)
  /\ pc' = [pc EXCEPT ![r] = "window_loop"]
  /\ UNCHANGED <<leaseVars, envVars, lockVars, workVars>>

\* response_j = response.json(); after = ...; for link_thing in ...['children']
SearchBody(r) ==
  /\ pc[r] = "search"
  /\ LET page == SearchPage(nib[r].w, req[r].url.after)
     IN  nib' = [nib EXCEPT ![r].after = page.after, ![r].items = page.children]
  /\ pc' = [pc EXCEPT ![r] = "item_loop"]
  /\ UNCHANGED <<leaseVars, envVars, lockVars, self, req, exp>>

\* the next link_thing: do_comments(link_id) sends its request
ItemNext(r) ==
  /\ pc[r] = "item_loop"
  /\ nib[r].items # <<>>
  /\ nib' = [nib EXCEPT ![r].link = Head(nib[r].items), ![r].items = Tail(@)]
  /\ exp' = [exp EXCEPT ![r] = NoExp]
  /\ request(r, "comments", [endpoint |-> "comments", link_id |-> Head(nib[r].items)], CommentsRetries)
  /\ UNCHANGED <<leaseVars, envVars, lockVars, self>>

ItemsDone(r) ==
  /\ pc[r] = "item_loop"
  /\ nib[r].items = <<>>
  /\ pc' = [pc EXCEPT ![r] = "page_loop"]
  /\ UNCHANGED <<leaseVars, envVars, lockVars, workVars>>

\* ------------------------------------------------------------ do_comments
\* response_j[0]...['children'][0] raises on a body without the link listing
CommentsRaises(response_j) == Len(response_j) = 0

\* the paths of MorePaths, for the list of Listings
ListingPaths(response_j) ==
  Concat([i \in 1..Len(response_j) |->
            LET sub == MorePaths(response_j[i])
            IN  [j \in 1..Len(sub) |-> <<i>> \o sub[j]]])

\* do_comments after its request: link_name, and populate_thing on every
\* Listing when there is more than one
CommentsBody(r) ==
  /\ pc[r] = "comments"
  /\ LET response_j == CommentsResponse(nib[r].link)
     IN  /\ ~CommentsRaises(response_j)
         /\ exp' = [exp EXCEPT ![r] =
                     [exp[r] EXCEPT !.link_name = nib[r].link,
                                   !.tree = IF Len(response_j) > 1
                                              THEN [i \in 1..Len(response_j) |-> PopulateShape(response_j[i])]
                                              ELSE response_j,
                                   !.pending = IF Len(response_j) > 1
                                                 THEN ListingPaths(response_j) ELSE <<>>]]
  /\ pc' = [pc EXCEPT ![r] = "populate"]
  /\ UNCHANGED <<leaseVars, envVars, lockVars, self, req, nib>>

CommentsMalformed(r) ==
  /\ pc[r] = "comments"
  /\ CommentsRaises(CommentsResponse(nib[r].link))
  /\ pc' = [pc EXCEPT ![r] = "raised"]
  /\ UNCHANGED <<leaseVars, envVars, lockVars, workVars>>

\* the 'more' thing at the head of pending, in the list of Listings
PendingMore(r) == NodeAt(exp[r].tree[Head(Head(exp[r].pending))], Tail(Head(exp[r].pending)))

\* populate_thing reaches a 'more': do_morechildren(child_ids=d['data'].get('children', []))
MoreStart(r) ==
  /\ pc[r] = "populate"
  /\ exp[r].pending # <<>>
  /\ exp' = [exp EXCEPT ![r].more_child_ids = PendingMore(r).children.ids, ![r].results = <<>>]
  /\ pc' = [pc EXCEPT ![r] = "more_loop"]
  /\ UNCHANGED <<leaseVars, envVars, lockVars, self, req, nib>>

\* while len(more_child_ids) > 0: request the first ten ids
MoreRequest(r) ==
  /\ pc[r] = "more_loop"
  /\ exp[r].more_child_ids # <<>>
  /\ request(r, "more", [endpoint |-> "morechildren", link_id |-> exp[r].link_name,
                         children |-> Take(exp[r].more_child_ids, BatchSize)], MoreRetries)
  /\ exp' = [exp EXCEPT ![r].followups = Counted(@)]
  /\ UNCHANGED <<leaseVars, envVars, lockVars, self, nib>>

\* the ids get_child_ids_from_thing finds in the things of a response
DiscoveredIds(response_j) ==
  Concat([i \in 1..Len(response_j.things) |-> get_child_ids_from_thing(response_j.things[i])])

BodyRaises(response_j) ==
  /\ response_j.kind = "response"
  /\ \E i \in 1..Len(response_j.things) : ThingRaises(response_j.things[i])

\* results.append(response_j); from MaxResults on the list stands for "these and more"
Appended(results, response_j) ==
  IF Len(results) < MaxResults THEN Append(results, response_j) ELSE results

\* more_child_ids = more_child_ids[10:]; a dict is appended to results and the
\* ids of its things are appended to more_child_ids
MoreBody(r) ==
  /\ pc[r] = "more"
  /\ LET response_j == MoreResponse(req[r].url.children)
     IN  /\ ~BodyRaises(response_j)
         /\ exp' = [exp EXCEPT
               ![r].more_child_ids = Drop(@, BatchSize) \o
                    (IF response_j.kind = "response" THEN DiscoveredIds(response_j) ELSE <<>>),
               ![r].results = IF response_j.kind = "response" THEN Appended(@, response_j) ELSE @]
  /\ pc' = [pc EXCEPT ![r] = "more_loop"]
  /\ UNCHANGED <<leaseVars, envVars, lockVars, self, req, nib>>

\* get_child_ids_from_thing raises KeyError inside do_morechildren
MoreBodyRaises(r) ==
  /\ pc[r] = "more"
  /\ BodyRaises(MoreResponse(req[r].url.children))
  /\ pc' = [pc EXCEPT ![r] = "raised"]
  /\ UNCHANGED <<leaseVars, envVars, lockVars, workVars>>

\* the queue is empty: return results; populate_thing stores them in the 'more'
MoreReturn(r) ==
  /\ pc[r] = "more_loop"
  /\ exp[r].more_child_ids = <<>>
  /\ LET path == Head(exp[r].pending)
     IN  exp' = [exp EXCEPT ![r].tree[Head(path)] = SetChildren(@, Tail(path), exp[r].results),
                            ![r].pending = Tail(@)]
  /\ pc' = [pc EXCEPT ![r] = "populate"]
  /\ UNCHANGED <<leaseVars, envVars, lockVars, self, req, nib>>

\* the link_doc do_search_nibble hands to flatten_comments
LinkDoc(r) == [link |-> Link(nib[r].link), comments |-> exp[r].tree]

\* do_comments returns; f.write(flatten_comments(link_doc))
WriteLine(r) ==
  /\ pc[r] = "populate"
  /\ exp[r].pending = <<>>
  /\ FlattenAssert(exp[r].tree)
  /\ nib' = [nib EXCEPT ![r].f = Append(@, flatten_comments(LinkDoc(r)))]
  /\ exp' = [exp EXCEPT ![r].tree = flattened_input(@)]
  /\ pc' = [pc EXCEPT ![r] = "item_loop"]
  /\ UNCHANGED <<leaseVars, envVars, lockVars, self, req>>

\* the assertion of flatten_comments fails
FlattenRaises(r) ==
  /\ pc[r] = "populate"
  /\ exp[r].pending = <<>>
  /\ ~FlattenAssert(exp[r].tree)
  /\ pc' = [pc EXCEPT ![r] = "raised"]
  /\ UNCHANGED <<leaseVars, envVars, lockVars, workVars>>

\* ------------------------------------------------------ upload and return
UploadOk(r) ==
  /\ pc[r] = "upload"
  /\ nib' = [nib EXCEPT ![r].uploaded = "ok"]
  /\ pc' = [pc EXCEPT ![r] = "return"]
  /\ UNCHANGED <<leaseVars, envVars, lockVars, self, req, exp>>

\* an upload failure handled like a failing search request: release and exit
UploadFailExit(r) ==
  /\ pc[r] = "upload"
  /\ nib' = [nib EXCEPT ![r].uploaded = "failed"]
  /\ release_creds(r, unames[r])
  /\ pc' = [pc EXCEPT ![r] = "exit"]
  /\ UNCHANGED <<now, envVars, lockVars, self, req, exp>>

\* except Exception: logging.warning(...); self.release_creds()
UploadFail(r) ==
  /\ pc[r] = "upload"
  /\ nib' = [nib EXCEPT ![r].uploaded = "failed"]
  /\ release_creds(r, unames[r])
  /\ pc' = [pc EXCEPT ![r] = "return"]
  /\ UNCHANGED <<now, envVars, lockVars, self, req, exp>>

\* do_ringest after do_search_nibble: self.release_creds(); logging.info(...)
Return(r) ==
  /\ pc[r] = "return"
  /\ release_creds(r, unames[r])
  /\ pc' = [pc EXCEPT ![r] = "done"]
  /\ UNCHANGED <<now, envVars, lockVars, workVars>>

\* the clock
Tick ==
  /\ now < MaxTime
  /\ now' = now + 1
  /\ UNCHANGED <<available, holder, pc, lockVars, envVars, workVars>>

\* ------------------------------------------------------------ the inputs
NoPart == [start_time |-> 0, end_time |-> 0, size |-> 1, offset |-> 0, called |-> FALSE, result |-> <<>>]

Reserved == MaxTime + 2   \* an available far enough ahead never to pass

\* parse_args(): --token-count, --start-time, --end-time, --request-sleep
ArgsWith(counts, ends, windows) ==
  {[token_count |-> c, start_time |-> 0, end_time |-> e, request_sleep |-> 1, reservation |-> d] :
     c \in counts, e \in ends, d \in windows}

\* parse_args() of a command line without the reservation flags
Args(counts, ends) == ArgsWith(counts, ends, {CliReservation})

\* comment listings after the link's own Listing
Leaf(id) == Comment(id, EmptyStr, Absent)

Plain == <<Listing(<<Comment("c1", Listing(<<Leaf("r1")>>), Absent), Leaf("c2")>>)>>

WithMore == <<Listing(<<Leaf("c1"), More(Ids(<<"a", "b">>))>>)>>

NestedMore == <<Listing(<<Comment("c1", Listing(<<Leaf("r1"), More(Ids(<<"a">>))>>), Absent)>>)>>

KeyedMore == <<Listing(<<Comment("c1", EmptyStr, Listing(<<More(Ids(<<"b">>))>>))>>)>>

LongMore == <<Listing(<<More(Ids(<<"a", "b", "c", "i4", "i5", "i6", "i7", "i8", "i9", "i10", "i11">>))>>)>>

TwoListings == <<Listing(<<Leaf("c1")>>), Listing(<<Leaf("c2"), More(Ids(<<"c">>))>>)>>

MoreIds == {"a", "b", "c"}

Upstreams(pagings, heads, rests, replies) ==
  {[search |-> sp, comments |-> [head |-> h, rest |-> t], reply |-> rp] :
     sp \in pagings, h \in heads, t \in rests, rp \in replies}

NoItems == [w \in 1..2 |-> << <<>> >>]

OneItem == [w \in 1..2 |-> IF w = 1 THEN << <<"p1">> >> ELSE << <<>> >>]

Paged == [w \in 1..2 |-> IF w = 1 THEN << <<"p1">>, <<"p2">> >> ELSE << <<>>, <<"p3">> >>]

AllComments == [i \in MoreIds |-> "comment"]

\* follow-up answers in which no id comes back: a -> b -> c and no further
Acyclic ==
  {rp \in [MoreIds -> {"none", "comment", "nested", "notdict", "keyerror"}] :
     rp["c"] # "nested"}

InitCommon ==
  /\ now = 1
  /\ holder = [u \in Unames |-> NoRun]
  /\ count = [r \in Runs |-> 0]
  /\ unames = [r \in Runs |-> <<>>]
  /\ lk_unames = [r \in Runs |-> <<>>]
  /\ attempts = [r \in Runs |-> 0]
  /\ reservation = [r \in Runs |-> 0]
  /\ self = [r \in Runs |-> NewRingest]
  /\ req = [r \in Runs |-> NoReq]
  /\ nib = [r \in Runs |-> NoNib]
  /\ exp = [r \in Runs |-> NoExp]

\* the network's failing answers: at most MaxFaults of them, or, against an
\* upstream without any link, enough of them to use up a retry budget of 20
Scenarios ==
  {[upstream |-> up, faults |-> MaxFaults, end_time |-> 15] :
     up \in Upstreams({OneItem, Paged}, {"t3", "t1", "missing"}, {<<>>, WithMore},
                      {rp \in Acyclic : rp["a"] \in {"comment", "keyerror"} /\ rp["b"] = "nested" /\ rp["c"] = "none"})}
  \cup
  {[upstream |-> up, faults |-> SearchRetries + 1, end_time |-> 10] :
     up \in Upstreams({NoItems}, {"t3"}, {<<>>}, {AllComments})}

\* one run, from Component.__call__ to its end, against an unreliable network
Init ==
  /\ InitCommon
  /\ part = NoPart
  /\ available \in {[u \in Unames |-> 0], [u \in Unames |-> IF u = "u1" THEN 0 ELSE Reserved]}
  /\ pc = [r \in Runs |-> IF r = 1 THEN "call" ELSE "off"]
  /\ \E sc \in Scenarios :
       /\ upstream = sc.upstream
       /\ faults = sc.faults
       /\ args \in [Runs -> Args({2}, {sc.end_time})]

RunNext(r) ==
  \/ Call(r) \/ LockLoop(r) \/ LockClaim(r) \/ LockSurplus(r) \/ LockRaise(r) \/ LockReturn(r)
  \/ ReqExhausted(r) \/ ReqTokenError(r) \/ ReqTransport(r) \/ Req414(r) \/ ReqRetry(r) \/ Req200(r)
  \/ Nibble(r) \/ WindowNext(r) \/ WindowsDone(r) \/ PageRequest(r) \/ PageDone(r)
  \/ SearchBody(r) \/ ItemNext(r) \/ ItemsDone(r)
  \/ CommentsBody(r) \/ CommentsMalformed(r) \/ MoreStart(r) \/ MoreRequest(r)
  \/ MoreBody(r) \/ MoreBodyRaises(r) \/ MoreReturn(r) \/ WriteLine(r) \/ FlattenRaises(r)
  \/ UploadOk(r) \/ UploadFail(r) \/ Return(r)

Next == (\E r \in Runs : RunNext(r)) \/ Tick

Spec == Init /\ [][Next]_vars

\* ------------------------------------------- runs contending for the pool
\* every run is started with start_time = end_time: no sub-window, no request
InitLease ==
  /\ InitCommon
  /\ part = NoPart
  /\ available \in [Unames -> {0, 2}]
  /\ pc = [r \in Runs |-> "call"]
  /\ args \in {a \in [Runs -> ArgsWith(1..2, {0}, {DefaultReservation, CliReservation})] :
                  \A r1, r2 \in Runs : a[r1].reservation = a[r2].reservation}
  /\ upstream \in Upstreams({NoItems}, {"t3"}, {<<>>}, {AllComments})
  /\ faults = 0

LeaseNext(r) ==
  \/ Call(r) \/ LockLoop(r) \/ LockClaim(r) \/ LockSurplus(r) \/ LockRaise(r) \/ LockReturn(r)
  \/ Nibble(r) \/ WindowsDone(r) \/ UploadOk(r) \/ UploadFail(r) \/ Return(r)

NextLease == (\E r \in Runs : LeaseNext(r)) \/ Tick

SpecLease == InitLease /\ [][NextLease]_vars

\* ------------------------------ one link and its comments, reliable network
CommentTrees == {<<>>, Plain, WithMore, NestedMore, KeyedMore, LongMore, TwoListings}

InitTreeWith(trees, replies) ==
  /\ InitCommon
  /\ part = NoPart
  /\ available = [u \in Unames |-> IF u = "u3" THEN Reserved ELSE 0]
  /\ pc = [r \in Runs |-> IF r = 1 THEN "call" ELSE "off"]
  /\ args \in [Runs -> Args({2}, {10})]
  /\ upstream \in Upstreams({OneItem}, {"t3"}, trees, replies)
  /\ faults = 0

InitTree == InitTreeWith(CommentTrees, {rp \in Acyclic : \A i \in MoreIds : rp[i] # "keyerror"})

TreeNext(r) ==
  \/ Call(r) \/ LockLoop(r) \/ LockClaim(r) \/ LockReturn(r)
  \/ Nibble(r) \/ WindowNext(r) \/ WindowsDone(r) \/ PageRequest(r) \/ PageDone(r)
  \/ Req200(r) \/ SearchBody(r) \/ ItemNext(r) \/ ItemsDone(r)
  \/ CommentsBody(r) \/ MoreStart(r) \/ MoreRequest(r) \/ MoreBody(r) \/ MoreReturn(r)
  \/ WriteLine(r) \/ UploadOk(r) \/ Return(r)

NextTree == \E r \in Runs : TreeNext(r)

SpecTree == InitTree /\ [][NextTree]_vars

\* the same run against an upstream whose follow-up answers may name ids again;
\* a run is a sequential process that takes its next step whenever it has one
InitMore ==
  InitTreeWith({Plain, WithMore, LongMore},
               {rp \in [MoreIds -> {"comment", "again", "nested"}] : rp["c"] = "comment"})

SpecMoreFair == InitMore /\ [][NextTree]_vars /\ WF_vars(NextTree)

\* ----------------------------------------------- partition_window alone
MaxStart == 2
MaxLen == 7
MaxSize == 4

InitPart ==
  /\ InitCommon
  /\ available = [u \in Unames |-> 0]
  /\ pc = [r \in Runs |-> "off"]
  /\ args \in [Runs -> Args({2}, {0})]
  /\ upstream \in Upstreams({NoItems}, {"t3"}, {<<>>}, {AllComments})
  /\ faults = 0
  /\ part \in {[start_time |-> s, end_time |-> s + n, size |-> z, offset |-> o,
                called |-> FALSE, result |-> <<>>] :
                 s \in 0..MaxStart, n \in 0..MaxLen, z \in 1..MaxSize, o \in {0, utc_offset}}

\* Ringest.partition_window(start_time, end_time, part_size_seconds, utc_offset)
PartitionCall ==
  /\ ~part.called
  /\ part' = [part EXCEPT !.called = TRUE,
                          !.result = partition_window(part.start_time, part.end_time, part.size, part.offset)]
  /\ UNCHANGED <<leaseVars, pc, upstream, faults, args, lockVars, workVars>>

SpecPart == InitPart /\ [][PartitionCall]_vars

\* ================================================================ claims
\* run r still has a claim on u: it claimed u, has not released it, and the
\* reservation it wrote has not passed
Holds(r, u) == holder[u] = r /\ available[u] > now

Ended(r) == pc[r] \in {"done", "exit", "raised"}

\* C1: lease exclusivity. An identity passes to another run only when its
\* reservation has passed or its holder released it, and while a run holds an
\* unexpired identity no step of another run changes the row's available.
C1_LeaseExclusive ==
  [][\A u \in Unames :
       /\ (holder'[u] # holder[u] /\ holder[u] # NoRun /\ holder'[u] # NoRun) => available[u] < now
       /\ (holder[u] # NoRun /\ available[u] > now /\ holder'[u] = holder[u])
             => available'[u] = available[u]]_vars

\* C2: when lock_creds fails, the run is left with no claim on any identity.
C2_FailedAcquireHoldsNothing ==
  \A r \in Runs : pc[r] = "lock_failed" => \A u \in Unames : ~Holds(r, u)

\* C3: however a run ends after lock_creds returned, it holds no identity then.
C3_EveryExitReleases ==
  \A r \in Runs : Ended(r) => \A u \in Unames : ~Holds(r, u)

\* ------------------------------------------------------ trees, for the claims
RECURSIVE HasMore(_)
HasMore(d) ==
  IF d.kind = "more" THEN TRUE
  ELSE IF d.kind = "Listing" THEN \E i \in 1..Len(d.children) : HasMore(d.children[i])
  ELSE IF d.kind = "t1" THEN HasMore(d.data_replies) \/ HasMore(d.replies)
  ELSE FALSE

\* do_comments has returned to do_search_nibble
Expanded(r) == pc[r] = "populate" /\ exp[r].pending = <<>>

\* C4: the tree do_comments returns for more than one Listing has no 'more'
\* thing at any depth.
C4_NoPlaceholderLeft ==
  \A r \in Runs :
    (Expanded(r) /\ Len(exp[r].tree) > 1)
      => \A i \in 1..Len(exp[r].tree) : ~HasMore(exp[r].tree[i])

\* the comment records of a list of things, each before its replies
CommentRecords(things) == SelectSeq(traverse(Listing(things)), LAMBDA x : x.kind = "t1")

\* the follow-up responses stored in the tree, in the order of the tree
RECURSIVE StoredResponses(_)
StoredResponses(d) ==
  IF d.kind = "more" THEN (IF "responses" \in DOMAIN d.children THEN d.children.responses ELSE <<>>)
  ELSE IF d.kind = "Listing" THEN Concat([i \in 1..Len(d.children) |-> StoredResponses(d.children[i])])
  ELSE IF d.kind = "t1" THEN StoredResponses(d.replies) \o StoredResponses(d.data_replies)
  ELSE <<>>

CommentListings(comments) == [i \in 1..(Len(comments) - 1) |-> comments[i + 1]]

\* the comments the follow-up responses stored in the tree brought
ResolvedRecords(doc) ==
  LET stored == Concat([i \in 1..Len(doc.comments) |-> StoredResponses(doc.comments[i])])
  IN  Concat([i \in 1..Len(stored) |-> CommentRecords(stored[i].things)])

\* the comments the listing came with
OriginalRecords(doc) ==
  LET fetched == CommentListings(CommentsResponse(doc.link.id))
  IN  Concat([i \in 1..Len(fetched) |-> CommentRecords(fetched[i].children)])

TopLevelMore(comments) ==
  \E i \in 2..Len(comments) : \E j \in 1..Len(comments[i].children) : comments[i].children[j].kind = "more"

\* C5: the LinkRecord written for a link whose listing has a placeholder that
\* resolved to further comments lists the comments of the listing followed by
\* the resolved comments, one record each and nothing else.
C5_ResolvedCommentsAreRecords ==
  \A r \in Runs : \A n \in 1..Len(nib[r].f) :
    (TopLevelMore(CommentsResponse(nib[r].f[n].link.id)) /\ ResolvedRecords(nib[r].f[n]) # <<>>)
      => nib[r].f[n].flattened_comments = OriginalRecords(nib[r].f[n]) \o ResolvedRecords(nib[r].f[n])

\* C6: every do_morechildren loop ends.
C6_MoreChildrenTerminates ==
  \A r \in Runs : (pc[r] = "more_loop") ~> (pc[r] \notin {"more_loop", "request", "more"})

\* C7: the intervals of partition_window start at start+offset, follow one
\* another without gap or overlap, and end at the last second before end+offset.
C7_PartitionCoversExactly ==
  (part.called /\ part.start_time < part.end_time) =>
    LET res == part.result
    IN  /\ Len(res) >= 1
        /\ res[1][1] = part.start_time + part.offset
        /\ \A k \in 1..Len(res) : res[k][1] <= res[k][2]
        /\ \A k \in 1..(Len(res) - 1) : res[k + 1][1] = res[k][2] + 1
        /\ res[Len(res)][2] = part.end_time + part.offset - 1

\* the number of things in a Listing and in the replies below it
RECURSIVE NodeCount(_)
NodeCount(d) ==
  IF d.kind = "Listing"
    THEN IF d.children = <<>> THEN 0
         ELSE NodeCount(Head(d.children)) + NodeCount(Listing(Tail(d.children)))
  ELSE IF d.kind = "t1" THEN 1 + NodeCount(d.data_replies)
  ELSE IF d.kind \in {"more", "t3"} THEN 1
  ELSE 0

RECURSIVE Sum(_)
Sum(s) == IF s = <<>> THEN 0 ELSE Head(s) + Sum(Tail(s))

\* <<a, b>>: comment b is a reply below comment a, or a later sibling of a
CommentsAt(ch) == {k \in 1..Len(ch) : ch[k].kind = "t1"}

RECURSIVE Before(_)
Before(d) ==
  IF d.kind = "Listing"
    THEN UNION ({Before(d.children[i]) : i \in 1..Len(d.children)}
                \cup {{<<d.children[i].id, d.children[j].id>> :
                         j \in {k \in CommentsAt(d.children) : k > i}} : i \in CommentsAt(d.children)})
  ELSE IF d.kind = "t1" /\ d.data_replies.kind = "Listing"
    THEN Before(d.data_replies)
         \cup {<<d.id, d.data_replies.children[j].id>> : j \in CommentsAt(d.data_replies.children)}
  ELSE {}

Position(fc, id) == CHOOSE n \in 1..Len(fc) : fc[n].kind = "t1" /\ fc[n].id = id

InOrder(doc) ==
  \A i \in 2..Len(doc.comments) : \A pair \in Before(doc.comments[i]) :
    Position(doc.flattened_comments, pair[1]) < Position(doc.flattened_comments, pair[2])

Counted8(doc) ==
  Len(doc.flattened_comments) = Sum([i \in 1..(Len(doc.comments) - 1) |-> NodeCount(doc.comments[i + 1])])

NoLink(doc) == \A n \in 1..Len(doc.flattened_comments) : doc.flattened_comments[n].kind # "t3"

NoDataReplies(doc) ==
  \A n \in 1..Len(doc.flattened_comments) :
    doc.flattened_comments[n].kind = "t1" => doc.flattened_comments[n].data_replies = Absent

NoRepliesKey(doc) ==
  \A n \in 1..Len(doc.flattened_comments) :
    doc.flattened_comments[n].kind = "t1" => doc.flattened_comments[n].replies = Absent

\* C8: flattened_comments is the pre-order walk of the Listings after the
\* first: every comment before its replies, siblings in order, the link left
\* out, one record per thing, and no record with a replies field.
C8_FlattenPreOrder ==
  \A r \in Runs : \A n \in 1..Len(nib[r].f) :
    /\ InOrder(nib[r].f[n])
    /\ Counted8(nib[r].f[n])
    /\ NoLink(nib[r].f[n])
    /\ NoDataReplies(nib[r].f[n])
    /\ NoRepliesKey(nib[r].f[n])

\* C9: for a fetched tree without any 'more', do_comments returns the tree as
\* fetched and sends no follow-up request.
C9_ExpandNoOp ==
  \A r \in Runs :
    (Expanded(r) /\ \A i \in 1..Len(exp[r].tree) : ~HasMore(CommentsResponse(nib[r].link)[i]))
      => /\ exp[r].tree = CommentsResponse(nib[r].link)
         /\ exp[r].followups = 0

Sites == {"search", "comments", "more"}

\* C10: a call of request with budget N sends at most N GETs and has slept
\* the fixed interval once per failed send before the next one; its caller
\* gets only a response with status 200; after N failing responses the run
\* has released its identities and exited.
C10_RetryBudget ==
  \A r \in Runs :
    /\ req[r].sends <= req[r].budget
    /\ pc[r] = "request" =>
         /\ req[r].slept = RetrySleep * req[r].sends
         /\ req[r].retries_left = req[r].budget - req[r].sends
    /\ pc[r] \in Sites => req[r].status = 200
    /\ (req[r].budget >= 1 /\ req[r].sends = req[r].budget /\ req[r].status = 500) =>
         /\ pc[r] \in {"request", "exit"}
         /\ pc[r] = "exit" => \A u \in Unames : ~Holds(r, u)

\* a run that exited after as many failing responses as its budget
C10_Witness ==
  \E r \in Runs :
    /\ pc[r] = "exit"
    /\ req[r].budget >= 1
    /\ req[r].sends = req[r].budget
    /\ req[r].status = 500
    /\ req[r].slept = RetrySleep * req[r].budget
    /\ unames[r] # <<>>

\* C11: a 414 ends the run at once: the run has exited with its identities
\* released and without a sleep after the 414, and nothing is sent afterwards.
C11_Fatal414 ==
  /\ [](\A r \in Runs : req[r].status = 414 =>
          /\ pc[r] = "exit"
          /\ \A u \in Unames : ~Holds(r, u)
          /\ req[r].slept = RetrySleep * (req[r].sends - 1))
  /\ [][\A r \in Runs : req[r].status = 414 =>
          (req'[r] = req[r] /\ self'[r] = self[r] /\ pc'[r] = pc[r])]_vars

\* a 414 that came while more than one retry was left, after an earlier failing answer
C11_Witness ==
  \E r \in Runs :
    /\ req[r].status = 414
    /\ req[r].retries_left > 1
    /\ req[r].sends = 2
    /\ pc[r] = "exit"
    /\ unames[r] # <<>>

\* the positions of a run inside lock_creds, and after its ConnectionError
LockPhase == {"call", "lock_loop", "lock_claim", "lock_surplus", "lock_failed"}

\* C12: no partial run. Until lock_creds has returned, and for ever after it
\* raised, the run has fetched no token, sent no GET, written no line and
\* uploaded nothing; every run that is past lock_creds got its count identities.
C12_NoPartialRun ==
  /\ [](\A r \in Runs : pc[r] \in LockPhase =>
          /\ self[r].request_count = 0
          /\ self[r].tokens = <<>>
          /\ req[r] = NoReq
          /\ nib[r] = NoNib
          /\ exp[r] = NoExp)
  /\ [](\A r \in Runs : pc[r] \notin (LockPhase \cup {"off"}) =>
          (count[r] >= 1 /\ Len(unames[r]) = count[r]))
  /\ [][\A r \in Runs : pc[r] = "lock_failed" => pc'[r] = "lock_failed"]_vars

\* lock_creds gave up after its last attempt, with fewer identities than asked for
C12_Witness ==
  \E r \in Runs :
    /\ pc[r] = "lock_failed"
    /\ attempts[r] = max_attempts
    /\ Len(lk_unames[r]) < count[r]
    /\ lk_unames[r] # <<>>

\* every window was requested and its paging and its items are finished
AllPaged(r) ==
  /\ nib[r].w = Len(nib[r].windows)
  /\ nib[r].items = <<>>
  /\ nib[r].after = NoCursor
  /\ nib[r].windows # <<>> => nib[r].started

\* C13: the upload is attempted once, with every window paged and the sink
\* closed; whether it succeeds or fails, do_search_nibble returns to do_ringest,
\* which releases the identities and logs its summary.
C13_UploadBestEffort ==
  /\ [](\A r \in Runs : (pc[r] = "upload" \/ nib[r].uploaded # "no") =>
          (nib[r].closed /\ AllPaged(r)))
  /\ [](\A r \in Runs : nib[r].uploaded # "no" => pc[r] \in {"return", "done"})
  /\ [](\A r \in Runs : (nib[r].uploaded # "no" /\ pc[r] = "done") => \A u \in Unames : ~Holds(r, u))
  /\ [][\A r \in Runs :
          /\ nib[r].uploaded # "no" => nib'[r] = nib[r]
          /\ (pc[r] = "return" /\ pc'[r] # pc[r]) => pc'[r] = "done"]_vars

\* a run whose upload failed has written a line and has come to its end
C13_Witness ==
  \E r \in Runs :
    /\ nib[r].uploaded = "failed"
    /\ pc[r] = "done"
    /\ Len(nib[r].f) >= 1
    /\ Len(nib[r].windows) >= 2

\* the rate-limit fields of the Ringest object
RateState(r) == <<self[r].rate_limit_used, self[r].rate_limit_remaining, self[r].rate_limit_reset>>

\* the current call of request has received a response
Answered(r) == req[r].status \in {200, 414, 500}

\* C14: after a response without the rate-limit headers the rate-limit fields
\* are (0, 60, 5); after a response with them they are the header values;
\* this holds after every response, whatever its status.
C14_RateStateAfterResponse ==
  \A r \in Runs : Answered(r) =>
    IF req[r].headers.present
      THEN RateState(r) = <<StrVal(req[r].headers.used), StrVal(req[r].headers.remaining),
                            StrVal(req[r].headers.reset)>>
      ELSE RateState(r) = <<IntVal(0), IntVal(60), IntVal(5)>>

\* a failing response without the headers, after a response that carried them
C14_Witness ==
  \E r \in Runs :
    /\ req[r].status = 500
    /\ ~req[r].headers.present
    /\ req[r].sends >= 1
    /\ self[r].request_count >= 2
    /\ RateState(r) = <<IntVal(0), IntVal(60), IntVal(5)>>

\* C15: a GET that follows a response whose X-Ratelimit-Remaining was zero is
\* preceded by a sleep of the X-Ratelimit-Reset seconds of that response.
C15_BlockWhenExhausted ==
  [][\A r \in Runs :
       (req'[r].sends = req[r].sends + 1 /\ self[r].rate_limit_remaining = StrVal(0))
         => req'[r].waits = req[r].waits + self[r].rate_limit_reset.v]_vars

\* the identities run r claimed and has not released
Claimed(r) == {u \in Unames : holder[u] = r}

\* C16: when lock_creds returns, the run has exactly count identities and
\* has released every other row its claims returned, each at the time of the
\* release; a claim takes every leasable row, and a second attempt is made
\* only after a first one that returned fewer than count rows.
C16_AcquireExact ==
  /\ [](\A r \in Runs : pc[r] = "nibble" =>
          /\ Len(unames[r]) = count[r]
          /\ Cardinality(Range(unames[r])) = count[r]
          /\ Claimed(r) \subseteq Range(unames[r]))
  /\ [][\A r \in Runs :
          /\ (pc[r] = "lock_surplus" /\ pc'[r] # pc[r]) =>
               \A u \in Range(Drop(lk_unames[r], count[r])) : available'[u] = now /\ holder'[u] # r
          /\ (pc[r] = "lock_claim" /\ pc'[r] # pc[r]) => Range(lk_unames'[r]) = Leasable
          /\ (pc[r] = "lock_loop" /\ attempts[r] = 1 /\ attempts'[r] = 2) =>
               Len(lk_unames[r]) < count[r]]_vars

\* lock_creds returned after one attempt that claimed more rows than asked for
C16_Witness ==
  \E r \in Runs :
    /\ pc[r] = "nibble"
    /\ attempts[r] = 1
    /\ count[r] = 2
    /\ Cardinality(Claimed(r)) = 2
    /\ \E u \in Unames : u \notin Range(unames[r]) /\ holder[u] = NoRun /\ available[u] > 0

\* C17: the follow-up ids are a first-in first-out queue. A request carries
\* the first ids of the queue, 1 to 10 of them and all of them when fewer than
\* 10 are queued; the queue is not touched until the response is handled; then
\* exactly the ids sent leave its head, and the ids found in the response,
\* none of them a bad id, are put behind the ids that were already queued.
C17_FollowUpQueue ==
  [][\A r \in Runs :
       LET queue == exp[r].more_child_ids
           after == exp'[r].more_child_ids
       IN  /\ (pc[r] = "more_loop" /\ pc'[r] = "request") =>
                LET sent == req'[r].url.children
                IN  /\ Len(sent) >= 1 /\ Len(sent) <= 10
                    /\ sent = SubSeq(queue, 1, Len(sent))
                    /\ Len(sent) < 10 => sent = queue
                    /\ after = queue
           /\ (pc[r] = "request" /\ req[r].site = "more") => after = queue
           /\ (pc[r] = "more" /\ pc'[r] = "more_loop") =>
                LET sent == req[r].url.children
                    kept == Len(queue) - Len(sent)
                IN  /\ sent = SubSeq(queue, 1, Len(sent))
                    /\ Len(after) >= kept
                    /\ SubSeq(after, 1, kept) = SubSeq(queue, Len(sent) + 1, Len(queue))
                    /\ \A i \in (kept + 1)..Len(after) : after[i] \notin bad_ids]_vars

\* the second request of a queue of 11 ids: the eleventh id, then discovered ones
C17_Witness ==
  \E r \in Runs :
    /\ pc[r] = "request"
    /\ req[r].site = "more"
    /\ exp[r].followups = 2
    /\ Len(req[r].url.children) >= 2
    /\ req[r].url.children[1] = "i11"

\* the result items of every page of every window of the run, in the order served
AllItems(r) == Concat([w \in 1..Len(nib[r].windows) |-> Concat(upstream.search[w])])

\* the links of the lines of the sink
Written(r) == [n \in 1..Len(nib[r].f) |-> nib[r].f[n].link.id]

IsPrefix(a, b) == Len(a) <= Len(b) /\ a = SubSeq(b, 1, Len(a))

\* C18: paging of a window starts without cursor, goes on with the cursor of
\* the last response as long as there is one, and ends at the first response
\* without cursor; the sink gets one line per item, in the order served, each
\* made from the tree do_comments returned for that item.
C18_PagingAndSink ==
  /\ [](\A r \in Runs :
          /\ IsPrefix(Written(r), AllItems(r))
          /\ pc[r] \in {"upload", "return", "done"} => Written(r) = AllItems(r))
  /\ [][\A r \in Runs :
          /\ (pc[r] = "window_loop" /\ pc'[r] = "page_loop") =>
               (~nib'[r].started /\ nib'[r].after = NoCursor)
          /\ (pc[r] = "page_loop" /\ pc'[r] = "request") =>
               /\ req'[r].url.after = nib[r].after
               /\ nib[r].started <=> nib[r].after # NoCursor
          /\ (pc[r] = "page_loop" /\ pc'[r] = "window_loop") =>
               (nib[r].started /\ nib[r].after = NoCursor)
          /\ (pc[r] = "search" /\ pc'[r] = "item_loop") =>
               /\ nib'[r].after = SearchPage(nib[r].w, req[r].url.after).after
               /\ nib'[r].items = SearchPage(nib[r].w, req[r].url.after).children
          /\ pc[r] \notin {"search", "window_loop", "nibble"} => nib'[r].after = nib[r].after
          /\ nib'[r].f # nib[r].f =>
               /\ pc[r] = "populate" /\ exp[r].pending = <<>>
               /\ Len(nib'[r].f) = Len(nib[r].f) + 1
               /\ SubSeq(nib'[r].f, 1, Len(nib[r].f)) = nib[r].f
               /\ nib'[r].f[Len(nib'[r].f)].link.id = nib[r].link
               /\ nib'[r].f[Len(nib'[r].f)].comments = exp[r].tree]_vars

\* a run that paged both windows and wrote the three items of their pages
C18_Witness ==
  \E r \in Runs :
    /\ pc[r] = "upload"
    /\ Len(nib[r].windows) = 2
    /\ Written(r) = <<"p1", "p2", "p3">>

\* C19: the request counter goes up by one with every GET sent, retried ones
\* included, and by nothing else; the n-th GET of a run uses the token with
\* index (n - 1) mod T, T being the number of identities the run holds.
C19_TokenRoundRobin ==
  /\ [](\A r \in Runs : req[r].token # NoToken =>
          /\ Len(self[r].tokens) = count[r]
          /\ self[r].tokens = unames[r]
          /\ req[r].token = (self[r].request_count - 1) % count[r])
  /\ [][\A r \in Runs :
          /\ req'[r].sends = req[r].sends + 1 =>
               /\ self'[r].request_count = self[r].request_count + 1
               /\ req'[r].token = self[r].request_count % count[r]
          /\ self'[r].request_count # self[r].request_count =>
               req'[r].sends = req[r].sends + 1]_vars

\* the third GET of a run with two tokens, a retry, uses the first token again
C19_Witness ==
  \E r \in Runs :
    /\ self[r].request_count = 3
    /\ Len(self[r].tokens) = 2
    /\ req[r].sends = 2
    /\ req[r].token = 0

\* C20: a token answer without a token does not end the run: when a run whose
\* token fetch failed has ended, it has sent the GET the tokens were fetched for.
C20_TokenFailureNotFatal ==
  \A r \in Runs : (req[r].token_failed /\ Ended(r)) => req[r].sends >= 1

\* run r has stopped without releasing: ConnectionError of lock_creds, or an
\* exception that left do_ringest
Crashed(r) == pc[r] \in {"lock_failed", "raised"}

\* the identities a crashed run claimed and never released
Abandoned == {u \in Unames : holder[u] # NoRun /\ Crashed(holder[u])}

\* C21: an identity abandoned by a crashed run keeps the available time its
\* claim wrote until that time has passed: no step makes it leasable before,
\* and once the time has passed a claim of another run takes it.
C21_SelfHealing ==
  [][/\ \A u \in Abandoned : available[u] >= now => available'[u] = available[u]
     /\ \A r \in Runs : (pc[r] = "lock_claim" /\ pc'[r] # pc[r]) =>
          \A u \in Abandoned : (u \in Range(lk_unames'[r]) <=> available[u] < now)]_vars

\* C22: flatten_comments leaves its input as it was: the tree it was given is
\* the same after the call, every field of every node included, and the line
\* written is a new document with link, comments and flattened_comments, the
\* first two being those of the input.
C22_FlattenKeepsInput ==
  [][\A r \in Runs : nib'[r].f # nib[r].f =>
       LET doc == nib'[r].f[Len(nib'[r].f)]
       IN  /\ exp'[r].tree = exp[r].tree
           /\ nib'[r].link = nib[r].link
           /\ DOMAIN doc = {"link", "comments", "flattened_comments"}
           /\ doc.link = Link(nib[r].link)
           /\ doc.comments = exp[r].tree]_vars

\* a line was written for a tree in which a comment has a reply Listing
C22_Witness ==
  \E r \in Runs :
    /\ pc[r] = "item_loop"
    /\ Len(nib[r].f) = 1
    /\ Len(exp[r].tree) = 2
    /\ \E i \in 1..Len(exp[r].tree[2].children) : HasReplies(exp[r].tree[2].children[i])
    /\ Len(nib[r].f[1].flattened_comments) >= 2
    /\ nib[r].f[1].comments = exp[r].tree

\* C23: the reservation window given on the command line is the one applied:
\* every row a claim of the run takes gets available = now + that window.
C23_RequestedReservationApplied ==
  [][\A r \in Runs : (pc[r] = "lock_claim" /\ pc'[r] # pc[r]) =>
       \A u \in Range(lk_unames'[r]) : available'[u] = now + args[r].reservation]_vars

====
